---- MODULE Spec2Model ----
(***************************************************************************)
(* A model of demonstrations/tutorial_qchem_external.py: a linear script   *)
(* of five stages that binds names to values returned by library calls     *)
(* and prints some of them.  The interpreter state is the name table, the  *)
(* objects created so far, the printed output and the position in the      *)
(* script.  Values returned by the libraries are symbolic (where they were *)
(* produced and from which arguments); the two-electron tensor carries its *)
(* entries, because the script permutes its axes.                          *)
(***************************************************************************)
EXTENDS Integers, Sequences, FiniteSets, TLC

\* Number of molecular orbitals of the modelled tensors.
NOrb == 2
\* Largest entry of a modelled two-electron integral tensor.
MaxVal == 1

Orb == 1..NOrb
Idx4 == Orb \X Orb \X Orb \X Orb

VARIABLES order, pc, status, err, env, heap, out, trace

vars == <<order, pc, status, err, env, heap, out, trace>>

----------------------------------------------------------------------------
(* The script *)

\* The script without the notation change of line 126.
StageLinesNoSwap(k) ==
  CASE k = 1 -> <<50, 51, 53, 54, 57, 59, 60>>
    [] k = 2 -> <<73, 75, 76, 78, 79>>
    [] k = 3 -> <<99, 101, 104, 105, 111, 112, 117, 118, 132, 139, 145>>
    [] k = 4 -> <<167, 169, 170, 171, 177, 178>>
    [] k = 5 -> <<192, 193, 194, 195, 201, 202>>

\* The executable statements of each stage, by line number.
StageLines(k) ==
  CASE k = 1 -> <<50, 51, 53, 54, 57, 59, 60>>
    [] k = 2 -> <<73, 75, 76, 78, 79>>
    [] k = 3 -> <<99, 101, 104, 105, 111, 112, 117, 118, 126, 132, 139, 145>>
    [] k = 4 -> <<167, 169, 170, 171, 177, 178>>
    [] k = 5 -> <<192, 193, 194, 195, 201, 202>>

\* The order in which the file holds the stages.
FileOrder == <<1, 2, 3, 4, 5>>

RECURSIVE Flatten(_)
Flatten(o) == IF o = <<>> THEN <<>> ELSE StageLines(Head(o)) \o Flatten(Tail(o))

\* The statements of the file, top to bottom.
Script == Flatten(FileOrder)

\* The orders in which the five stages can be run.
StageOrders ==
  {o \in [1..5 -> 1..5] : \A i, j \in 1..5 : o[i] = o[j] => i = j}

\* The statements in the order in which this run executes them.
Program == Flatten(order)

\* The names the script binds or reads; "rhf.mo_coeff" is the attribute of the
\* solver object that lines 117 and 118 read.
Names == {"qml", "np", "symbols", "geometry", "molecule", "H", "qubits",
          "QubitOperator", "gto", "ao2mo", "scf", "mol_pyscf", "rhf", "energy",
          "one_ao", "two_ao", "one_mo", "two_mo", "core_constant",
          "H_fermionic", "cc", "mol", "myhf", "mycc", "state",
          "FermionOperator", "openfermion_op", "pennylane_op"}

B(name, kind, ran) == [name |-> name, kind |-> kind, ran |-> ran]

S(reads, binds, prints, typeOnly, lib) ==
  [reads |-> reads, binds |-> binds, prints |-> prints, typeOnly |-> typeOnly,
   lib |-> lib]

\* Line 167 importing only cc, relying on the gto and scf of line 99.
Import167_ccOnly == S(<<>>, <<B("cc", "module", FALSE)>>, "", FALSE, TRUE)

\* Line 167: from pyscf import gto, scf, cc.
Import167 ==
  S(<<>>, <<B("gto", "module", FALSE), B("scf", "module", FALSE),
            B("cc", "module", FALSE)>>, "", FALSE, TRUE)

\* One statement: the names it reads (in evaluation order), the names it binds
\* with the kind of value bound, the name it prints, whether it prints only the
\* type, and whether it calls into a library (an import or a library function).
StmtAt(line) ==
  CASE line = 50 -> S(<<>>, <<B("qml", "module", FALSE)>>, "", FALSE, TRUE)
    [] line = 51 -> S(<<>>, <<B("np", "module", FALSE)>>, "", FALSE, TRUE)
    [] line = 53 -> S(<<>>, <<B("symbols", "list", FALSE)>>, "", FALSE, FALSE)
    [] line = 54 -> S(<<"np">>, <<B("geometry", "tensor", FALSE)>>, "", FALSE, TRUE)
    [] line = 57 -> S(<<"qml", "symbols", "geometry">>,
                      <<B("molecule", "molecule", FALSE)>>, "", FALSE, TRUE)
    [] line = 59 -> S(<<"qml", "molecule">>,
                      <<B("H", "operator", FALSE), B("qubits", "scalar", FALSE)>>,
                      "", FALSE, TRUE)
    [] line = 60 -> S(<<"H">>, <<>>, "H", FALSE, FALSE)
    [] line = 73 -> S(<<>>, <<B("QubitOperator", "module", FALSE)>>, "", FALSE, TRUE)
    [] line = 75 -> S(<<"QubitOperator">>, <<B("H", "operator", FALSE)>>,
                      "", FALSE, TRUE)
    [] line = 76 -> S(<<"qml", "H">>, <<B("H", "operator", FALSE)>>, "", FALSE, TRUE)
    [] line = 78 -> S(<<"H">>, <<>>, "H", TRUE, FALSE)
    [] line = 79 -> S(<<"H">>, <<>>, "H", FALSE, FALSE)
    [] line = 99 -> S(<<>>, <<B("gto", "module", FALSE), B("ao2mo", "module", FALSE),
                             B("scf", "module", FALSE)>>, "", FALSE, TRUE)
    [] line = 101 -> S(<<"gto">>, <<B("mol_pyscf", "molecule", FALSE)>>,
                       "", FALSE, TRUE)
    [] line = 104 -> S(<<"scf", "mol_pyscf">>, <<B("rhf", "solver", FALSE)>>,
                       "", FALSE, TRUE)
    [] line = 105 -> S(<<"rhf">>, <<B("energy", "scalar", FALSE),
                                   B("rhf.mo_coeff", "tensor", FALSE)>>,
                       "", FALSE, TRUE)
    [] line = 111 -> S(<<"mol_pyscf">>, <<B("one_ao", "tensor", FALSE)>>,
                       "", FALSE, TRUE)
    [] line = 112 -> S(<<"mol_pyscf">>, <<B("two_ao", "tensor", FALSE)>>,
                       "", FALSE, TRUE)
    [] line = 117 -> S(<<"np", "rhf.mo_coeff", "one_ao">>,
                       <<B("one_mo", "tensor", FALSE)>>, "", FALSE, TRUE)
    [] line = 118 -> S(<<"ao2mo", "two_ao", "rhf.mo_coeff">>,
                       <<B("two_mo", "tensor", FALSE)>>, "", FALSE, TRUE)
    [] line = 126 -> S(<<"np", "two_mo">>, <<B("two_mo", "tensor", FALSE)>>,
                       "", FALSE, TRUE)
    [] line = 132 -> S(<<"np", "rhf">>, <<B("core_constant", "constant", FALSE)>>,
                       "", FALSE, TRUE)
    [] line = 139 -> S(<<"qml", "core_constant", "one_mo", "two_mo">>,
                       <<B("H_fermionic", "operator", FALSE)>>, "", FALSE, TRUE)
    [] line = 145 -> S(<<"qml", "H_fermionic">>, <<B("H", "operator", FALSE)>>,
                       "", FALSE, TRUE)
    [] line = 167 -> Import167
    [] line = 169 -> S(<<"gto">>, <<B("mol", "molecule", FALSE)>>, "", FALSE, TRUE)
    [] line = 170 -> S(<<"scf", "mol">>, <<B("myhf", "solver", TRUE)>>,
                       "", FALSE, TRUE)
    [] line = 171 -> S(<<"cc", "myhf">>, <<B("mycc", "solver", TRUE)>>,
                       "", FALSE, TRUE)
    [] line = 177 -> S(<<"qml", "mycc">>, <<B("state", "state", FALSE)>>,
                       "", FALSE, TRUE)
    [] line = 178 -> S(<<"state">>, <<>>, "state", FALSE, FALSE)
    [] line = 192 -> S(<<>>, <<B("FermionOperator", "module", FALSE)>>,
                       "", FALSE, TRUE)
    [] line = 193 -> S(<<"FermionOperator">>,
                       <<B("openfermion_op", "operator", FALSE)>>, "", FALSE, TRUE)
    [] line = 194 -> S(<<"qml", "openfermion_op">>,
                       <<B("pennylane_op", "operator", FALSE)>>, "", FALSE, TRUE)
    [] line = 195 -> S(<<"pennylane_op">>, <<>>, "pennylane_op", FALSE, FALSE)
    [] line = 201 -> S(<<"qml", "pennylane_op">>,
                       <<B("openfermion_op", "operator", FALSE)>>, "", FALSE, TRUE)
    [] line = 202 -> S(<<"openfermion_op">>, <<>>, "openfermion_op", FALSE, FALSE)

\* The line numbers of the executable statements.
Lines == {Script[i] : i \in DOMAIN Script}

\* The statements of the file as a table.
StmtTable == [l \in Lines |-> StmtAt(l)]

\* The statement at a line.
Stmt(line) == StmtTable[line]

\* The object whose attribute a dotted name is ("" for a plain name).
AttrOwner(name) == IF name = "rhf.mo_coeff" THEN "rhf" ELSE ""

----------------------------------------------------------------------------
(* Values *)

\* The entries of a value the model does not look into.
NoData == <<>>

\* A tensor with one non-zero entry.
OneHot(t, v) == [x \in Idx4 |-> IF x = t THEN v ELSE 0]

\* The two-electron tensors the transformation of line 118 may return.
TensorFamily == {OneHot(t, v) : t \in Idx4, v \in 1..MaxVal}

\* numpy's swapaxes on a 4-index tensor, axes counted from 0: the entry at an
\* index is the argument's entry at the index with positions a and b exchanged.
swapaxes(T, a, b) ==
  [x \in DOMAIN T |-> T[[x EXCEPT ![a + 1] = x[b + 1], ![b + 1] = x[a + 1]]]]

\* The swap with axes 1 and 2 instead.
Line126_axes12(T) == swapaxes(T, 1, 2)

\* Line 126: two_mo = np.swapaxes(two_mo, 1, 3).
Line126(T) == swapaxes(T, 1, 3)

\* What a library call may return as the entries of its result.
Outputs(line) == IF line = 118 THEN TensorFamily ELSE {NoData}

\* The swapped tensor written into the array two_mo already names.
TargetIdInPlace(name, k) ==
  IF name = "two_mo" /\ env[name] # 0 THEN env[name] ELSE Len(heap) + k

\* An assignment binds its k-th target to a newly created object; the object the
\* name was bound to before is not written.
TargetId(name, k) == Len(heap) + k

\* The object a read name refers to (0: unbound, or an attribute not yet set).
Resolve(name) ==
  IF AttrOwner(name) = "" THEN env[name]
  ELSE IF env[AttrOwner(name)] = 0 THEN 0
       ELSE heap[env[AttrOwner(name)]].mo_coeff

----------------------------------------------------------------------------
(* Control *)

\* Control that passes over the statement that follows.
AdvanceSkip(i) == i + 2

\* Statements run one after another: no branch, no loop.
Advance(i) == i + 1

\* An exception that is caught, the script going on with the next statement.
Swallow(i) == [status |-> "running", pc |-> Advance(i)]

\* No statement of the script is inside a try block: an exception raised at
\* position i ends the script there.
Uncaught(i) == [status |-> "failed", pc |-> i]

Init ==
  /\ order = FileOrder
  /\ pc = 1
  /\ status = "running"
  /\ err = "none"
  /\ env = [n \in Names |-> 0]
  /\ heap = <<>>
  /\ out = <<>>
  /\ trace = <<>>

\* What print shows of an object: where it was produced and from what.
Show(line, o, typeOnly) ==
  [line |-> line, kind |-> o.kind,
   site |-> IF typeOnly THEN 0 ELSE o.site,
   args |-> IF typeOnly THEN <<>> ELSE [k \in DOMAIN o.args |-> heap[o.args[k]].site],
   data |-> IF typeOnly THEN NoData ELSE o.data]

\* The statement `st` of line `line` completes: its targets are bound to new
\* objects made from the arguments, and what it prints is appended to the output.
Complete(i, line, st, argIds, ids, data) ==
  LET obj(k) == [kind |-> st.binds[k].kind, site |-> line, args |-> argIds,
                 data |-> IF AttrOwner(st.binds[k].name) = "" THEN data ELSE NoData,
                 ran |-> st.binds[k].ran, mo_coeff |-> 0]
      attrs == {k \in DOMAIN st.binds : AttrOwner(st.binds[k].name) # ""}
      owner(k) == env[AttrOwner(st.binds[k].name)]
  IN /\ heap' = [id \in DOMAIN heap \cup {ids[k] : k \in DOMAIN ids} |->
                  IF \E k \in DOMAIN ids : ids[k] = id
                  THEN obj(CHOOSE k \in DOMAIN ids : ids[k] = id)
                  ELSE IF \E k \in attrs : owner(k) = id
                  THEN [heap[id] EXCEPT
                          !.ran = TRUE,
                          !.mo_coeff = ids[CHOOSE k \in attrs : owner(k) = id]]
                  ELSE heap[id]]
     /\ env' = [n \in Names |->
                  IF \E k \in DOMAIN st.binds : st.binds[k].name = n
                  THEN ids[CHOOSE k \in DOMAIN st.binds : st.binds[k].name = n]
                  ELSE env[n]]
     /\ out' = IF st.prints = "" THEN out
               ELSE Append(out, Show(line, heap[env[st.prints]], st.typeOnly))
     /\ trace' = Append(trace, line)
     /\ pc' = Advance(i)
     /\ UNCHANGED <<order, status, err>>

\* The statement stops at the first name it reads that is not bound (NameError)
\* or at an attribute that holds no array yet (TypeError).
Stop(i, name) ==
  /\ status' = Uncaught(i).status
  /\ pc' = Uncaught(i).pc
  /\ err' = IF AttrOwner(name) = "" \/ env[AttrOwner(name)] = 0
            THEN "NameError" ELSE "TypeError"
  /\ UNCHANGED <<order, env, heap, out, trace>>

Perform(i, line, st, argIds) ==
  LET missing == {k \in DOMAIN st.reads : argIds[k] = 0}
  IN IF missing # {}
     THEN Stop(i, st.reads[CHOOSE k \in missing : \A j \in missing : k <= j])
     ELSE \E d \in Outputs(line) :
            Complete(i, line, st, argIds,
                     [k \in DOMAIN st.binds |-> TargetId(st.binds[k].name, k)],
                     IF line = 126 THEN Line126(heap[argIds[2]].data) ELSE d)

\* The statement at position i is executed.
Execute(i) ==
  Perform(i, Program[i], Stmt(Program[i]),
          [k \in DOMAIN Stmt(Program[i]).reads |-> Resolve(Stmt(Program[i]).reads[k])])

\* The script is running and its next statement belongs to stage k.
AtStage(k) ==
  /\ status = "running"
  /\ pc \in DOMAIN Program
  /\ \E j \in DOMAIN StageLines(k) : StageLines(k)[j] = Program[pc]

\* Stage 1, lines 50-60.
HamiltonianBuilder ==
  /\ AtStage(1)
  /\ Execute(pc)

\* Stage 2, lines 73-79.
OperatorImporter ==
  /\ AtStage(2)
  /\ Execute(pc)

\* Stage 3, lines 99-145.
IntegralPipeline ==
  /\ AtStage(3)
  /\ Execute(pc)

\* Stage 4, lines 167-178.
StateImporter ==
  /\ AtStage(4)
  /\ Execute(pc)

\* Stage 5, lines 192-202.
OperatorConverter ==
  /\ AtStage(5)
  /\ Execute(pc)

\* A library call of the next statement raises (a missing package at an import,
\* a malformed geometry, a solver that does not converge).
LibraryFailure ==
  /\ status = "running"
  /\ pc \in DOMAIN Program
  /\ Stmt(Program[pc]).lib
  /\ status' = Uncaught(pc).status
  /\ pc' = Uncaught(pc).pc
  /\ err' = "LibraryError"
  /\ UNCHANGED <<order, env, heap, out, trace>>

\* The interpreter runs off the end of the file.
Exit ==
  /\ status = "running"
  /\ pc \notin DOMAIN Program
  /\ status' = "done"
  /\ UNCHANGED <<order, pc, err, env, heap, out, trace>>

Next ==
  \/ HamiltonianBuilder
  \/ OperatorImporter
  \/ IntegralPipeline
  \/ StateImporter
  \/ OperatorConverter
  \/ LibraryFailure
  \/ Exit

Spec == Init /\ [][Next]_vars

\* A started statement returns or raises, and the interpreter goes on to the
\* next one: the script has one thread and never waits.
FairSpec == Spec /\ WF_vars(Next)

\* The script with its stages run in any order.
PermInit ==
  /\ order \in StageOrders
  /\ pc = 1
  /\ status = "running"
  /\ err = "none"
  /\ env = [n \in Names |-> 0]
  /\ heap = <<>>
  /\ out = <<>>
  /\ trace = <<>>

PermSpec == PermInit /\ [][Next]_vars

----------------------------------------------------------------------------
(* Properties *)

ObjsAt(site) == {o \in DOMAIN heap : heap[o].site = site}

Occurrences(line, t) == Cardinality({i \in DOMAIN t : t[i] = line})

\* Every execution of line b so far came after an execution of line a.
Before(a, b) ==
  \A j \in DOMAIN trace : trace[j] = b => \E i \in 1..(j - 1) : trace[i] = a

\* The index convention of a two-electron tensor: the transformation of line
\* 118 returns chemists' notation, and each swap of line 126 changes it over.
RECURSIVE Notation(_)
Notation(o) ==
  IF heap[o].site = 118 THEN "chemists"
  ELSE IF heap[o].site = 126
       THEN (IF Notation(heap[o].args[2]) = "chemists" THEN "physicists"
             ELSE "chemists")
       ELSE "none"

\* C2: the tensor produced by the axis swap of line 126 is the tensor returned
\* by ao2mo.incore.full at line 118 with its 2nd and 4th indices exchanged:
\* after[p, q, r, s] = before[p, s, r, q] for every index tuple.
C2_AxisSwap ==
  \A o \in ObjsAt(126) :
    LET before == heap[heap[o].args[2]]
    IN /\ before.site = 118
       /\ \A p \in Orb, q \in Orb, r \in Orb, s \in Orb :
            heap[o].data[<<p, q, r, s>>] = before.data[<<p, s, r, q>>]

\* two_mo is bound to a swapped tensor in which an entry has changed place.
C2_Witness ==
  /\ env["two_mo"] \in ObjsAt(126)
  /\ \E p \in Orb, q \in Orb, r \in Orb, s \in Orb :
       /\ q # s
       /\ heap[env["two_mo"]].data[<<p, q, r, s>>] # 0
       /\ heap[heap[env["two_mo"]].args[2]].data[<<p, q, r, s>>] = 0

PrintLines == {l \in {Script[i] : i \in DOMAIN Script} : Stmt(l).prints # ""}

\* C6: a failure of a library call propagates uncaught: the script is in the
\* failed state at the failing statement, exactly the statements before it have
\* been executed, and only their output has been printed.
C6_FailurePropagates ==
  err # "none" =>
    /\ status = "failed"
    /\ pc \in DOMAIN Script
    /\ trace = SubSeq(Script, 1, pc - 1)
    /\ Len(out) = Cardinality({i \in DOMAIN trace : trace[i] \in PrintLines})
    /\ \A i \in DOMAIN out : \E j \in DOMAIN trace : trace[j] = out[i].line

\* The solver of line 105 failed after three outputs were printed; the three
\* later prints never happen.
C6_Witness ==
  /\ err = "LibraryError"
  /\ status = "failed"
  /\ Script[pc] = 105
  /\ Len(out) = 3

IsPrefix(t, u) == Len(t) <= Len(u) /\ t = SubSeq(u, 1, Len(t))

\* C7: the statements run strictly top to bottom, each at most once and in the
\* order of the five stages; a run in which nothing fails reaches completion
\* having run every statement exactly once, the last output being that of
\* line 202.
C7_Sequential ==
  /\ [](IsPrefix(trace, Script))
  /\ [](status = "done" =>
          /\ trace = Script
          /\ \A i \in DOMAIN Script : Occurrences(Script[i], trace) = 1
          /\ out[Len(out)].line = 202)
  /\ <>(status = "done" \/ err # "none")

\* The script has run to completion.
C7_Witness ==
  /\ status = "done"
  /\ err = "none"
  /\ trace = Script
  /\ Len(out) = 6

BoundNames(line) == {Stmt(line).binds[k].name : k \in DOMAIN Stmt(line).binds}

\* The statement that, in file order, produced the value line `line` reads
\* under `name` (0: none).
DefLine(name, line) ==
  LET defs == {i \in DOMAIN Script : Script[i] < line /\ name \in BoundNames(Script[i])}
  IN IF defs = {} THEN 0
     ELSE Script[CHOOSE i \in defs : \A j \in defs : j <= i]

OriginalArgsTable ==
  [l \in Lines |-> [k \in DOMAIN Stmt(l).reads |-> DefLine(Stmt(l).reads[k], l)]]

\* The statements whose values the arguments of line `line` are, in file order.
OriginalArgs(line) == OriginalArgsTable[line]

KindAt(line, name) ==
  LET st == Stmt(line)
  IN st.binds[CHOOSE k \in DOMAIN st.binds : st.binds[k].name = name].kind

OriginalShowTable ==
  [l \in PrintLines |->
     LET st == Stmt(l)
         d == DefLine(st.prints, l)
     IN [line |-> l, kind |-> KindAt(d, st.prints),
         site |-> IF st.typeOnly THEN 0 ELSE d,
         args |-> IF st.typeOnly THEN <<>> ELSE OriginalArgs(d),
         data |-> NoData]]

\* What the print of line `line` shows when the file is run top to bottom.
OriginalShow(line) == OriginalShowTable[line]

FinalDefTable == [n \in Names |-> DefLine(n, 203)]

\* The stages that assign a name.
AssigningStages(n) ==
  {k \in 1..5 : \E j \in DOMAIN StageLines(k) : n \in BoundNames(StageLines(k)[j])}

\* The names that exactly one stage assigns.
OwnNames == {n \in Names : Cardinality(AssigningStages(n)) = 1}

\* No name is read unbound, every value is computed from the values of the
\* same statements as in file order, every print shows what it shows in file
\* order, and at completion every print has happened and each name that only
\* one stage assigns holds the value of the same statement.
OrderInsensitive ==
  /\ err \notin {"NameError", "TypeError"}
  /\ \A o \in DOMAIN heap :
       [k \in DOMAIN heap[o].args |-> heap[heap[o].args[k]].site]
         = OriginalArgs(heap[o].site)
  /\ \A i \in DOMAIN out : out[i] = OriginalShow(out[i].line)
  /\ status = "done" =>
       /\ {out[i].line : i \in DOMAIN out} = PrintLines
       /\ Len(out) = Cardinality(PrintLines)
       /\ \A n \in OwnNames :
            /\ env[n] # 0
            /\ heap[env[n]].site = FinalDefTable[n]

\* C8 as stated: the stages can be run in any of the 120 orders.
C8_AnyOrder == OrderInsensitive

\* C8: every stage but the first reads qml or np, which lines 50 and 51 of
\* stage 1 bind; in every order that runs stage 1 first no name is read
\* unbound and every stage prints what it prints in file order.
C8_StageOneFirst == order[1] = 1 => OrderInsensitive

\* The stages ran in the order 1, 5, 4, 3, 2 to completion.
C8_Witness ==
  /\ order = <<1, 5, 4, 3, 2>>
  /\ status = "done"
  /\ heap[env["H"]].site = 76

ValueKinds == {"molecule", "tensor", "constant", "operator", "state"}

\* C9: no step changes a molecule descriptor, tensor, constant, operator or
\* state vector that exists; a step that re-binds H, two_mo or openfermion_op
\* binds a newly created object and leaves the old one as it was; one_ao and
\* two_ao stay bound to the same unchanged object, and rhf.mo_coeff, once set,
\* stays the same object.
C9_NoMutation ==
  [][/\ \A o \in DOMAIN heap :
          heap[o].kind \in ValueKinds => o \in DOMAIN heap' /\ heap'[o] = heap[o]
     /\ \A n \in {"H", "two_mo", "openfermion_op"} :
          (env[n] # 0 /\ env'[n] # env[n]) =>
            /\ env'[n] \notin DOMAIN heap
            /\ heap'[env[n]] = heap[env[n]]
     /\ \A n \in {"one_ao", "two_ao"} : env[n] # 0 => env'[n] = env[n]
     /\ \A o \in DOMAIN heap :
          heap[o].mo_coeff # 0 => heap'[o].mo_coeff = heap[o].mo_coeff]_vars

\* H has been bound four times and two_mo twice; the tensor two_mo was first
\* bound to still exists with entries other than those of the swapped one.
C9_Witness ==
  /\ status = "done"
  /\ heap[env["H"]].site = 145
  /\ ObjsAt(59) # {} /\ ObjsAt(75) # {} /\ ObjsAt(76) # {}
  /\ \E o \in ObjsAt(118) : heap[o].data # heap[env["two_mo"]].data
  /\ \E o \in ObjsAt(104) : heap[o].mo_coeff \in ObjsAt(105)

\* C10: in the integral pipeline the solver is run (105) before rhf.mo_coeff is
\* read (117, 118); the integrals are transformed (117, 118) before the axis
\* swap (126); the swap happens once, before fermionic_observable (139), which
\* receives the two-electron tensor in physicists' notation; jordan_wigner (145)
\* is applied to the result of fermionic_observable; and import_state (177)
\* reads a CCSD solver that has been run (171).
C10_ProducerBeforeConsumer ==
  /\ Before(105, 117) /\ Before(105, 118)
  /\ \A o \in ObjsAt(117) : heap[o].args[2] \in ObjsAt(105)
  /\ \A o \in ObjsAt(118) : heap[o].args[3] \in ObjsAt(105)
  /\ Before(117, 126) /\ Before(118, 126)
  /\ Before(126, 139)
  /\ \A o \in ObjsAt(139) :
       /\ Occurrences(126, trace) = 1
       /\ Notation(heap[o].args[4]) = "physicists"
  /\ \A o \in ObjsAt(145) : heap[o].args[2] \in ObjsAt(139)
  /\ Before(171, 177)
  /\ \A o \in ObjsAt(177) :
       /\ heap[o].args[2] \in ObjsAt(171)
       /\ heap[heap[o].args[2]].ran

\* The integral pipeline and the state importer have both run to their end.
C10_Witness ==
  /\ ObjsAt(145) # {}
  /\ ObjsAt(177) # {}
  /\ \E o \in ObjsAt(139) : Notation(heap[o].args[4]) = "physicists"

====
